---- MODULE Spec2Model ----
(***************************************************************************)
(* Metric cells of apache_beam/metrics/cells.py: the CellCommitState       *)
(* dirty-bit tracker, CounterCell, DistributionCell, DistributionData and  *)
(* the combine algebra.                                                    *)
(*                                                                         *)
(* A behaviour lives in one "world", fixed by `kind` in the initial state: *)
(*   "counter"  one shared CounterCell, writers calling inc, a harvester   *)
(*   "dist"     one shared DistributionCell, writers calling update, a     *)
(*              harvester                                                  *)
(*   "tracker"  one bare CellCommitState whose three methods are called in *)
(*              any order                                                  *)
(*   "combine_counter", "combine_data", "combine_singleton"                *)
(*              the combine functions applied to operands drawn from       *)
(*              bounded sets (specification SpecAlg)                       *)
(*   "frame_counter", "frame_dist", "frame_data"                           *)
(*              combine followed by an inc/update on an operand or on the  *)
(*              result, with object identity (specification SpecFrame)     *)
(*   "fold"     a sequence of integers folded by the aggregators from      *)
(*              zero(), and applied to one cell and to two cells that are  *)
(*              combined afterwards (specification SpecFold)               *)
(*   SpecLoop   the counter and the distribution world with a harvester    *)
(*              that never abandons a harvest, every thread scheduled      *)
(*              fairly                                                     *)
(*   "counter_2h", "dist_2h"                                               *)
(*              one cell, writers, and two harvesting threads              *)
(*              (specification SpecTwoHarvesters)                          *)
(*   "dist_live" a distribution cell updated by writers while it is the    *)
(*              operand of a combine (specification SpecLive)              *)
(*   "locks_counter", "locks_dist"                                         *)
(*              threads calling every operation on two shared cells, with  *)
(*              each lock of each cell explicit (specification SpecLocks)  *)
(*                                                                         *)
(* An optional value (Python None or a value) is a set with at most one    *)
(* element: None is {}, a present value v is {v}.                          *)
(***************************************************************************)
EXTENDS Integers, FiniteSets, Sequences, TLC

\* ---------------------------------------------------------------- bounds
\* arguments of inc/update range over -MaxVal..MaxVal
MaxVal == 1
\* total number of inc/update calls the writers issue
MaxCalls == 2
\* number of writer threads sharing the cell
NumWriters == 2
\* min/max of a combine operand range over 0..MaxAlgVal (or are None)
MaxAlgVal == 1
\* count of a combine operand ranges over 0..MaxAlgCount
MaxAlgCount == 1

\* ------------------------------------------------------ CellCommitState
DIRTY == 0
CLEAN == 1
COMMITTING == 2

States == {DIRTY, CLEAN, COMMITTING}

None == {}
Some(v) == {v}
Val(o) == CHOOSE x \in o : TRUE
Opt(S) == {None} \cup {Some(v) : v \in S}

\* mutant: a cell that starts out clean
InitCommitState_Clean == CLEAN

\* CellCommitState.__init__: self._state = DIRTY
InitCommitState == DIRTY

\* mutant: a modification during a commit does not dirty the tracker
AfterModification_KeepCommitting(s) == IF s = COMMITTING THEN s ELSE DIRTY

\* after_modification: self._state = DIRTY
AfterModification(s) == DIRTY

\* mutant: after_commit marks the cell clean whatever its state
AfterCommit_Always(s) == CLEAN

\* after_commit: COMMITTING becomes CLEAN, anything else is left alone
AfterCommit(s) == IF s = COMMITTING THEN CLEAN ELSE s

\* before_commit, the state it leaves
\* mutant: before_commit leaves a DIRTY tracker as it is
BeforeCommitState_Stay(s) == s

BeforeCommitState(s) == IF s = CLEAN THEN s ELSE COMMITTING

\* mutant: a commit in flight counts as nothing to report
BeforeCommitResult_DirtyOnly(s) == s = DIRTY

\* before_commit, the boolean it returns
BeforeCommitResult(s) == IF s = CLEAN THEN FALSE ELSE TRUE

\* ------------------------------------------------------ DistributionData
DistributionData(sum, count, min, max) ==
  [sum |-> sum, count |-> count, min |-> min, max |-> max]

\* Python's builtin min / max over a non-empty collection
SetMin(S) == CHOOSE m \in S : \A x \in S : m <= x
SetMax(S) == CHOOSE m \in S : \A x \in S : m >= x

\* DistributionData.get_cumulative: a fresh copy of the four fields
DataGetCumulative(d) == DistributionData(d.sum, d.count, d.min, d.max)

\* DistributionData.singleton
Singleton(v) == DistributionData(v, 1, Some(v), Some(v))

\* mutant: min(self.min, other.min) / max(...) taken over both fields, so that a
\* missing side makes the result None
DataCombine_NoneWins(self, other) ==
  IF other = None THEN self
  ELSE LET o == Val(other)
           new_min == IF self.min = None \/ o.min = None THEN None
                      ELSE Some(SetMin(self.min \cup o.min))
           new_max == IF self.max = None \/ o.max = None THEN None
                      ELSE Some(SetMax(self.max \cup o.max))
       IN DistributionData(self.sum + o.sum, self.count + o.count,
                           new_min, new_max)

\* DistributionData.combine; `other` is optional (None or a DistributionData)
DataCombine(self, other) ==
  IF other = None THEN self
  ELSE LET o == Val(other)
           new_min == IF self.min = None /\ o.min = None THEN None
                      ELSE Some(SetMin(self.min \cup o.min))
           new_max == IF self.max = None /\ o.max = None THEN None
                      ELSE Some(SetMax(self.max \cup o.max))
       IN DistributionData(self.sum + o.sum, self.count + o.count,
                           new_min, new_max)

\* DistributionCell.__init__: self.data = DistributionData(0, 0, None, None)
InitData == DistributionData(0, 0, None, None)

\* DistributionAggregator.zero
\* mutant: a zero whose min and max are 0
DistZero_ZeroMin == DistributionData(0, 0, Some(0), Some(0))

DistZero == DistributionData(0, 0, None, None)

\* DistributionCell._update, one field at a time
UpdateCount(d) == [d EXCEPT !.count = d.count + 1]
UpdateSum(d, v) == [d EXCEPT !.sum = d.sum + v]
\* mutant: _update's min without the `is None` case
UpdateMin_NoNone(d, v) ==
  [d EXCEPT !.min = IF d.min # None /\ Val(d.min) > v THEN Some(v) ELSE d.min]

UpdateMin(d, v) ==
  [d EXCEPT !.min = IF d.min = None \/ Val(d.min) > v THEN Some(v) ELSE d.min]
\* mutant: the comparison of _update's max turned around
UpdateMax_Flipped(d, v) ==
  [d EXCEPT !.max = IF d.max = None \/ Val(d.max) > v THEN Some(v) ELSE d.max]

UpdateMax(d, v) ==
  [d EXCEPT !.max = IF d.max = None \/ Val(d.max) < v THEN Some(v) ELSE d.max]

\* ------------------------------------------------------------ CounterCell
\* CounterCell.__init__: self.value = 0
InitValue == 0

\* a private counter cell (no other thread holds a reference to it)
CounterCell(v, s) == [value |-> v, commit |-> s]
NewCounterCell == CounterCell(InitValue, InitCommitState)

\* CounterCell.inc on a private cell: value += n, then after_modification
CellInc(c, n) == CounterCell(c.value + n, AfterModification(c.commit))

\* mutant: combine forgets the other operand
CounterCombine_SelfOnly(self, other) == CellInc(NewCounterCell, self.value)

\* CounterCell.combine: a new cell, inc'ed by the sum of the two values
CounterCombine(self, other) == CellInc(NewCounterCell, self.value + other.value)

\* CounterCell.get_cumulative on a private cell
CellGetCumulative(c) == c.value

\* ----------------------------------------------------------------- state
VARIABLES
  kind,      \* which world this behaviour is in
  value,     \* CounterCell.value
  data,      \* DistributionCell.data
  lock,      \* MetricCell._lock: the set of threads holding it
  state,     \* CellCommitState._state
  wpc,       \* writer -> where it is in inc/update
  arg,       \* writer -> the argument of its call
  tmp,       \* writer -> self.value as loaded by `self.value += n`
  ncalls,    \* number of inc/update calls issued so far
  hpc,       \* harvester -> where it is in its loop
  ret,       \* harvester -> what its last before_commit returned
  snap,      \* harvester -> what its last get_cumulative returned (optional)
  done,      \* history: bag of the arguments of the calls that returned normally
  nRead,     \* history: number of mutations applied when get_cumulative last ran
  marks,     \* history: number of after_modification calls made
  phase,     \* history: "fresh", "committing" (before_commit returned true), "committed"
  activity,  \* history: an inc/update call was in progress since that before_commit
  mutSinceBC,\* history: an inc/update call finished its work (value written and
             \* tracker marked) since that before_commit
  changed,   \* harvester -> the cell's value was written since its last get_cumulative
  skipped,   \* harvester -> its previous harvest ended without after_commit
  ops,       \* combine worlds: the operands
  res,       \* combine worlds: the results
  apc        \* combine worlds: "off", "ready", "done"

cellVars == <<kind, value, data, lock, state>>
writerVars == <<wpc, arg, tmp, ncalls>>
harvVars == <<hpc, ret, snap>>
histVars == <<done, nRead, marks, phase, activity, mutSinceBC, changed, skipped>>
algVars == <<ops, res, apc>>
vars == <<cellVars, writerVars, harvVars, histVars, algVars>>

Values == (0 - MaxVal)..MaxVal
Writers == {<<"w", i>> : i \in 1..NumWriters}
\* the threads running the harvesting loop: one
\* the worlds of one cell with two harvesting threads, and the world of one
\* distribution cell that is an operand of combine while it is updated
TwoHarvesterKinds == {"counter_2h", "dist_2h"}
CounterKinds == {"counter", "counter_2h"}
DistKinds == {"dist", "dist_2h", "dist_live"}
HarvestKinds == {"counter", "dist"} \cup TwoHarvesterKinds

Harvesters ==
  IF kind \in TwoHarvesterKinds THEN {<<"h", 1>>, <<"h", 2>>} ELSE {<<"h", 1>>}

\* an argument of inc/update: an integer, or a value int() / += rejects
GoodArgs == {[ok |-> TRUE, v |-> x] : x \in Values}
BadArg == [ok |-> FALSE, v |-> 0]
Args == GoodArgs \cup {BadArg}

CellKinds == {"counter", "dist"}

EmptyBag == [x \in Values |-> 0]

RECURSIVE BagCountOver(_, _)
BagCountOver(S, b) ==
  IF S = {} THEN 0
  ELSE LET x == CHOOSE y \in S : TRUE IN b[x] + BagCountOver(S \ {x}, b)

RECURSIVE BagSumOver(_, _)
BagSumOver(S, b) ==
  IF S = {} THEN 0
  ELSE LET x == CHOOSE y \in S : TRUE IN x * b[x] + BagSumOver(S \ {x}, b)

BagCount(b) == BagCountOver(Values, b)
BagSum(b) == BagSumOver(Values, b)
BagSupport(b) == {x \in Values : b[x] > 0}

\* ------------------------------------------------------------------ Init
InitCellWorld(k) ==
  /\ kind = k
  /\ value = InitValue
  /\ data = InitData
  /\ lock = {}
  /\ state = InitCommitState
  /\ wpc = [w \in Writers |-> "idle"]
  /\ arg = [w \in Writers |-> BadArg]
  /\ tmp = [w \in Writers |-> 0]
  /\ ncalls = 0
  /\ hpc = [h \in Harvesters |-> "idle"]
  /\ ret = [h \in Harvesters |-> FALSE]
  /\ snap = [h \in Harvesters |-> None]
  /\ done = EmptyBag
  /\ nRead = 0
  /\ marks = 0
  /\ phase = "fresh"
  /\ activity = FALSE
  /\ mutSinceBC = FALSE
  /\ changed = [h \in Harvesters |-> FALSE]
  /\ skipped = [h \in Harvesters |-> FALSE]

Init ==
  /\ \E k \in {"counter", "dist", "tracker"} : InitCellWorld(k)
  /\ ops = <<>>
  /\ res = <<>>
  /\ apc = "off"

\* --------------------------------------------------------------- writers
AnyWriterBusy == \E w \in Writers : wpc[w] # "idle"

\* mutant: inc/update run without the cell's lock
CanAcquire_NoLock(w) == TRUE

\* `with self._lock:` may be entered
CanAcquire(w) == lock = {}

\* number of mutations fully applied to the cell's value so far
Applied ==
  BagCount(done)
    + Cardinality({w \in Writers : wpc[w] \in {"inc_mark", "exit_ok"}})

Goto(w, l) == wpc' = [wpc EXCEPT ![w] = l]

\* every step of a writer counts as activity of an inc/update call
WriterStep == activity' = TRUE

\* CounterCell.inc: `with self._lock:`
IncAcquire(w, a) ==
  /\ kind \in CounterKinds /\ wpc[w] = "idle" /\ ncalls < MaxCalls
  /\ CanAcquire(w)
  /\ lock' = lock \cup {w}
  /\ arg' = [arg EXCEPT ![w] = a]
  /\ ncalls' = ncalls + 1
  /\ Goto(w, "inc_load")
  /\ WriterStep
  /\ UNCHANGED <<kind, value, data, state, tmp, harvVars, algVars>>
  /\ UNCHANGED <<done, nRead, marks, phase, mutSinceBC, changed, skipped>>

\* `self.value += n`: load self.value
IncLoad(w) ==
  /\ wpc[w] = "inc_load"
  /\ tmp' = [tmp EXCEPT ![w] = value]
  /\ Goto(w, "inc_add")
  /\ WriterStep
  /\ UNCHANGED <<cellVars, arg, ncalls, harvVars, algVars>>
  /\ UNCHANGED <<done, nRead, marks, phase, mutSinceBC, changed, skipped>>

\* `self.value += n`: add (raises on a non-numeric n) and store
IncAdd(w) ==
  /\ wpc[w] = "inc_add"
  /\ IF arg[w].ok
     THEN /\ value' = tmp[w] + arg[w].v
          /\ changed' = [h \in Harvesters |-> TRUE]
          /\ Goto(w, "inc_mark")
     ELSE /\ UNCHANGED <<value, changed>>
          /\ Goto(w, "exit_err")
  /\ WriterStep
  /\ UNCHANGED <<kind, data, lock, state, arg, tmp, ncalls, harvVars, algVars>>
  /\ UNCHANGED <<done, nRead, marks, phase, mutSinceBC, skipped>>

\* `self.commit.after_modification()`
IncMark(w) ==
  /\ wpc[w] = "inc_mark"
  /\ state' = AfterModification(state)
  /\ marks' = marks + 1
  /\ mutSinceBC' = TRUE
  /\ Goto(w, "exit_ok")
  /\ WriterStep
  /\ UNCHANGED <<kind, value, data, lock, arg, tmp, ncalls, harvVars, algVars>>
  /\ UNCHANGED <<done, nRead, phase, changed, skipped>>

\* DistributionCell.update: `with self._lock:`
UpdateAcquire(w, a) ==
  /\ kind \in DistKinds /\ wpc[w] = "idle" /\ ncalls < MaxCalls
  /\ CanAcquire(w)
  /\ lock' = lock \cup {w}
  /\ arg' = [arg EXCEPT ![w] = a]
  /\ ncalls' = ncalls + 1
  /\ Goto(w, "upd_mark")
  /\ WriterStep
  /\ UNCHANGED <<kind, value, data, state, tmp, harvVars, algVars>>
  /\ UNCHANGED <<done, nRead, marks, phase, mutSinceBC, changed, skipped>>

\* `self.commit.after_modification()`, before `self._update(value)`
UpdateMark(w) ==
  /\ wpc[w] = "upd_mark"
  /\ state' = AfterModification(state)
  /\ marks' = marks + 1
  /\ Goto(w, "upd_int")
  /\ WriterStep
  /\ UNCHANGED <<kind, value, data, lock, arg, tmp, ncalls, harvVars, algVars>>
  /\ UNCHANGED <<done, nRead, phase, mutSinceBC, changed, skipped>>

\* int(value) raises on a value that cannot be converted
IntRaises_Never(a) == FALSE
IntRaises(a) == ~a.ok

\* _update: `value = int(value)` (raises on a non-convertible value)
UpdateInt(w) ==
  /\ wpc[w] = "upd_int"
  /\ Goto(w, IF IntRaises(arg[w]) THEN "exit_err" ELSE "upd_count")
  /\ WriterStep
  /\ UNCHANGED <<cellVars, arg, tmp, ncalls, harvVars, algVars>>
  /\ UNCHANGED <<done, nRead, marks, phase, mutSinceBC, changed, skipped>>

\* _update: one of the four field assignments (`self.data.sum += value`
\* raises on a value that is not a number)
UpdateField(w) ==
  /\ \/ /\ wpc[w] = "upd_count"
        /\ data' = UpdateCount(data)
        /\ Goto(w, "upd_sum")
     \/ /\ wpc[w] = "upd_sum"
        /\ IF arg[w].ok
           THEN data' = UpdateSum(data, arg[w].v) /\ Goto(w, "upd_min")
           ELSE data' = data /\ Goto(w, "exit_err")
     \/ /\ wpc[w] = "upd_min"
        /\ data' = UpdateMin(data, arg[w].v)
        /\ Goto(w, "upd_max")
     \/ /\ wpc[w] = "upd_max"
        /\ data' = UpdateMax(data, arg[w].v)
        /\ Goto(w, "exit_ok")
  /\ mutSinceBC' = (mutSinceBC \/ wpc[w] = "upd_max")
  /\ changed' = [h \in Harvesters |-> TRUE]
  /\ WriterStep
  /\ UNCHANGED <<kind, value, lock, state, arg, tmp, ncalls, harvVars, algVars>>
  /\ UNCHANGED <<done, nRead, marks, phase, skipped>>

\* leaving `with self._lock:`, normally or by the exception: the call returns
Return(w) ==
  /\ wpc[w] \in {"exit_ok", "exit_err"}
  /\ lock' = lock \ {w}
  /\ IF wpc[w] = "exit_ok"
     THEN done' = [done EXCEPT ![arg[w].v] = @ + 1]
     ELSE UNCHANGED done
  /\ Goto(w, "idle")
  /\ WriterStep
  /\ UNCHANGED <<kind, value, data, state, arg, tmp, ncalls, harvVars, algVars>>
  /\ UNCHANGED <<nRead, marks, phase, mutSinceBC, changed, skipped>>

\* ------------------------------------------------------------- harvester
\* what get_cumulative returns for the cell
Cumulative == IF kind \in CounterKinds THEN value ELSE DataGetCumulative(data)

\* mutant: get_cumulative reads without the cell's lock
CanRead_NoLock(h) == TRUE

\* the object DistributionCell.get_cumulative hands out: "new", the
\* DistributionData that DistributionData.get_cumulative constructs, and not
\* "self", the cell's own data object
GetCumulativeRef_Self == "self"
GetCumulativeRef == "new"

\* get_cumulative's `with self._lock:` may be entered
CanRead(h) == lock = {}

\* CellCommitState.before_commit, called by harvester h
BeforeCommit(h) ==
  /\ state' = BeforeCommitState(state)
  /\ ret' = [ret EXCEPT ![h] = BeforeCommitResult(state)]
  /\ IF BeforeCommitResult(state)
     THEN /\ phase' = "committing"
          /\ activity' = AnyWriterBusy
          /\ mutSinceBC' = FALSE
     ELSE UNCHANGED <<phase, activity, mutSinceBC>>

\* CellCommitState.after_commit
DoAfterCommit ==
  /\ state' = AfterCommit(state)
  /\ phase' = IF phase = "committing" THEN "committed" ELSE phase

\* the harvesting loop: before_commit; on false there is nothing to report
HBeforeCommit(h) ==
  /\ kind \in HarvestKinds /\ hpc[h] = "idle"
  /\ BeforeCommit(h)
  /\ hpc' = [hpc EXCEPT ![h] = IF BeforeCommitResult(state) THEN "read" ELSE "idle"]
  /\ UNCHANGED <<kind, value, data, lock, writerVars, snap, algVars>>
  /\ UNCHANGED <<done, nRead, marks, changed, skipped>>

\* the harvesting loop: get_cumulative, the read under the cell's lock
HGetCumulative(h) ==
  /\ hpc[h] = "read"
  /\ CanRead(h)
  /\ snap' = [snap EXCEPT ![h] = Some(Cumulative)]
  /\ nRead' = Applied
  /\ changed' = [changed EXCEPT ![h] = FALSE]
  /\ hpc' = [hpc EXCEPT ![h] = "commit"]
  /\ UNCHANGED <<cellVars, writerVars, ret, algVars>>
  /\ UNCHANGED <<done, marks, phase, activity, mutSinceBC, skipped>>

\* the harvesting loop: after_commit
HAfterCommit(h) ==
  /\ hpc[h] = "commit"
  /\ DoAfterCommit
  /\ hpc' = [hpc EXCEPT ![h] = "idle"]
  /\ skipped' = [skipped EXCEPT ![h] = FALSE]
  /\ UNCHANGED <<kind, value, data, lock, writerVars, ret, snap, algVars>>
  /\ UNCHANGED <<done, nRead, marks, activity, mutSinceBC, changed>>

\* the harvest is abandoned after get_cumulative: after_commit is never called
HSkipCommit(h) ==
  /\ hpc[h] = "commit"
  /\ hpc' = [hpc EXCEPT ![h] = "idle"]
  /\ skipped' = [skipped EXCEPT ![h] = TRUE]
  /\ UNCHANGED <<cellVars, writerVars, ret, snap, algVars>>
  /\ UNCHANGED <<done, nRead, marks, phase, activity, mutSinceBC, changed>>

\* --------------------------------------------------- the tracker on its own
TrackerAfterModification ==
  /\ kind = "tracker" /\ marks < MaxCalls
  /\ state' = AfterModification(state)
  /\ marks' = marks + 1
  /\ activity' = TRUE
  /\ mutSinceBC' = TRUE
  /\ UNCHANGED <<kind, value, data, lock, writerVars, harvVars, algVars>>
  /\ UNCHANGED <<done, nRead, phase, changed, skipped>>

TrackerBeforeCommit(h) ==
  /\ kind = "tracker"
  /\ BeforeCommit(h)
  /\ UNCHANGED <<kind, value, data, lock, writerVars, hpc, snap, algVars>>
  /\ UNCHANGED <<done, nRead, marks, changed, skipped>>

TrackerAfterCommit ==
  /\ kind = "tracker"
  /\ DoAfterCommit
  /\ UNCHANGED <<kind, value, data, lock, writerVars, harvVars, algVars>>
  /\ UNCHANGED <<done, nRead, marks, activity, mutSinceBC, changed, skipped>>

\* ------------------------------------------------------------------ Next
Next ==
  \/ \E w \in Writers, a \in Args : IncAcquire(w, a)
  \/ \E w \in Writers : IncLoad(w)
  \/ \E w \in Writers : IncAdd(w)
  \/ \E w \in Writers : IncMark(w)
  \/ \E w \in Writers, a \in Args : UpdateAcquire(w, a)
  \/ \E w \in Writers : UpdateMark(w)
  \/ \E w \in Writers : UpdateInt(w)
  \/ \E w \in Writers : UpdateField(w)
  \/ \E w \in Writers : Return(w)
  \/ \E h \in Harvesters : HBeforeCommit(h)
  \/ \E h \in Harvesters : HGetCumulative(h)
  \/ \E h \in Harvesters : HAfterCommit(h)
  \/ \E h \in Harvesters : HSkipCommit(h)
  \/ TrackerAfterModification
  \/ \E h \in Harvesters : TrackerBeforeCommit(h)
  \/ TrackerAfterCommit

Spec == Init /\ [][Next]_vars

\* ------------------------------------------------------- combine worlds
AlgVals == 0..MaxAlgVal
AlgInts == (0 - 1)..MaxAlgVal
\* sum of a combine operand (sums only add up, two values suffice)
AlgSums == {0 - 1, 1}
AlgKinds == {"combine_counter", "combine_data", "combine_singleton"}

\* every DistributionData the constructor can build over the bounded fields
AllData == [sum : AlgSums, count : 0..MaxAlgCount, min : Opt(AlgVals), max : Opt(AlgVals)]

\* every private counter cell over the bounded values
AllCounterCells == {CounterCell(v, s) : v \in AlgInts, s \in States}

\* DistributionData.__eq__
DataEq(a, b) == a.sum = b.sum /\ a.count = b.count /\ a.min = b.min /\ a.max = b.max

InitAlg ==
  /\ \E k \in AlgKinds :
       /\ InitCellWorld(k)
       /\ \/ k = "combine_counter" /\ ops \in AllCounterCells \X AllCounterCells \X AllCounterCells
          \/ k = "combine_data" /\ ops \in AllData \X AllData \X AllData
          \/ k = "combine_singleton" /\ ops \in AlgInts \X AlgInts
  /\ res = <<>>
  /\ apc = "ready"

\* CounterCell.combine applied to the operands, in both orders and groupings
CombineCounters ==
  /\ kind = "combine_counter" /\ apc = "ready"
  /\ res' = [ab |-> CounterCombine(ops[1], ops[2]),
             ba |-> CounterCombine(ops[2], ops[1]),
             ab_c |-> CounterCombine(CounterCombine(ops[1], ops[2]), ops[3]),
             a_bc |-> CounterCombine(ops[1], CounterCombine(ops[2], ops[3]))]
  /\ apc' = "done"
  /\ UNCHANGED <<cellVars, writerVars, harvVars, histVars, ops>>

\* DistributionData.combine applied to the operands, in both orders and
\* groupings, with DistributionData(0, 0, None, None) and with None
CombineData ==
  /\ kind = "combine_data" /\ apc = "ready"
  /\ res' = [xy |-> DataCombine(ops[1], Some(ops[2])),
             yx |-> DataCombine(ops[2], Some(ops[1])),
             xy_z |-> DataCombine(DataCombine(ops[1], Some(ops[2])), Some(ops[3])),
             x_yz |-> DataCombine(ops[1], Some(DataCombine(ops[2], Some(ops[3])))),
             x0 |-> DataCombine(ops[1], Some(DistZero)),
             zx |-> DataCombine(DistZero, Some(ops[1])),
             xn |-> DataCombine(ops[1], None)]
  /\ apc' = "done"
  /\ UNCHANGED <<cellVars, writerVars, harvVars, histVars, ops>>

\* singleton(v).combine(singleton(w))
CombineSingletons ==
  /\ kind = "combine_singleton" /\ apc = "ready"
  /\ res' = [vw |-> DataCombine(Singleton(ops[1]), Some(Singleton(ops[2])))]
  /\ apc' = "done"
  /\ UNCHANGED <<cellVars, writerVars, harvVars, histVars, ops>>

NextAlg ==
  \/ CombineCounters
  \/ CombineData
  \/ CombineSingletons

SpecAlg == InitAlg /\ [][NextAlg]_vars

SpecAll == (Init \/ InitAlg) /\ [][Next \/ NextAlg]_vars

\* ------------------------------------------- combine and object identity
\* An object is named: "self" and "other" are the operand cells, "new" the
\* cell combine creates; "sd" and "od" are the DistributionData objects of
\* the operands, "nd" the one DistributionData.combine constructs.  A cell
\* holds the name of its data object; in-place updates go through the name.
FrameKinds == {"frame_counter", "frame_dist", "frame_data"}

\* DistributionCell._update on a cell no other thread uses: int(value) was
\* taken, then count, sum, min, max are assigned in place
DataUpdate(d, v) == UpdateMax(UpdateMin(UpdateSum(UpdateCount(d), v), v), v)

\* the object DistributionData.combine returns: `self` itself when other is
\* None, else a DistributionData it constructs
DataCombineRef(selfName, other) == IF other = None THEN selfName ELSE "nd"

\* the object CounterCell.combine / DistributionCell.combine returns:
\* `result = CounterCell()` / `result = DistributionCell()`
CellCombineRef == "new"

\* a DistributionCell as an object: the name of its data and its commit state
DistCell(d, s) == [data |-> d, commit |-> s]

InitFrame ==
  /\ \E k \in FrameKinds :
       /\ InitCellWorld(k)
       /\ \/ /\ k = "frame_counter"
             /\ \E a, b \in AllCounterCells :
                  ops = [cells |-> [self |-> a, other |-> b], dds |-> <<>>, other |-> None]
          \/ /\ k = "frame_dist"
             /\ \E a, b \in AllData, sa, sb \in States :
                  ops = [cells |-> [self |-> DistCell("sd", sa), other |-> DistCell("od", sb)],
                         dds |-> [sd |-> a, od |-> b], other |-> None]
          \/ /\ k = "frame_data"
             /\ \E a \in AllData, b \in Opt(AllData) :
                  ops = [cells |-> <<>>,
                         dds |-> [sd |-> a, od |-> IF b = None THEN DistZero ELSE Val(b)],
                         other |-> IF b = None THEN None ELSE Some("od")]
  /\ res = <<>>
  /\ apc = "ready"

\* CounterCell.combine(self, other)
FrameCombineCounters ==
  /\ kind = "frame_counter" /\ apc = "ready"
  /\ LET st == [cells |-> [self |-> ops.cells.self, other |-> ops.cells.other,
                           new |-> CounterCombine(ops.cells.self, ops.cells.other)],
                dds |-> <<>>]
     IN res' = [live |-> st, at |-> st, result |-> CellCombineRef, target |-> "none"]
  /\ apc' = "combined"
  /\ UNCHANGED <<cellVars, writerVars, harvVars, histVars, ops>>

\* DistributionCell.combine(self, other):
\* result = DistributionCell(); result.data = self.data.combine(other.data)
FrameCombineCells ==
  /\ kind = "frame_dist" /\ apc = "ready"
  /\ LET sd == ops.cells.self.data
         od == ops.cells.other.data
         st == [cells |-> [self |-> ops.cells.self, other |-> ops.cells.other,
                           new |-> DistCell(DataCombineRef(sd, Some(od)), InitCommitState)],
                dds |-> [sd |-> ops.dds[sd], od |-> ops.dds[od],
                         nd |-> DataCombine(ops.dds[sd], Some(ops.dds[od]))]]
     IN res' = [live |-> st, at |-> st, result |-> CellCombineRef, target |-> "none"]
  /\ apc' = "combined"
  /\ UNCHANGED <<cellVars, writerVars, harvVars, histVars, ops>>

\* DistributionData.combine(self, other) on the data object of a cell
FrameCombineData ==
  /\ kind = "frame_data" /\ apc = "ready"
  /\ LET other == IF ops.other = None THEN None ELSE Some(ops.dds[Val(ops.other)])
         st == [cells |-> <<>>,
                dds |-> [sd |-> ops.dds.sd, od |-> ops.dds.od,
                         nd |-> DataCombine(ops.dds.sd, other)]]
     IN res' = [live |-> st, at |-> st,
                result |-> DataCombineRef("sd", ops.other), target |-> "none"]
  /\ apc' = "combined"
  /\ UNCHANGED <<cellVars, writerVars, harvVars, histVars, ops>>

\* the operands of the combine that was made
FrameOperands ==
  IF kind = "frame_data" THEN {"sd"} \cup ops.other ELSE {"self", "other"}

\* a later inc(n) / update(n) on the object named t (an operand, or the result)
FrameMutate(t, n) ==
  /\ kind \in FrameKinds /\ apc = "combined"
  /\ t \in FrameOperands \cup {res.result}
  /\ \/ /\ kind = "frame_counter"
        /\ res' = [res EXCEPT !.live.cells[t] = CellInc(@, n), !.target = t]
     \/ /\ kind = "frame_dist"
        /\ res' = [res EXCEPT !.live.dds[res.live.cells[t].data] = DataUpdate(@, n),
                              !.live.cells[t].commit = AfterModification(@),
                              !.target = t]
     \/ /\ kind = "frame_data"
        /\ res' = [res EXCEPT !.live.dds[t] = DataUpdate(@, n), !.target = t]
  /\ apc' = "done"
  /\ UNCHANGED <<cellVars, writerVars, harvVars, histVars, ops>>

NextFrame ==
  \/ FrameCombineCounters
  \/ FrameCombineCells
  \/ FrameCombineData
  \/ \E t \in {"self", "other", "new", "sd", "od", "nd"}, n \in Values : FrameMutate(t, n)

SpecFrame == InitFrame /\ [][NextFrame]_vars

\* what the object named t is worth in the object state st: a counter cell's
\* value and commit state, a distribution cell's data and commit state, or a
\* DistributionData's four fields
FrameView(st, t) ==
  IF kind = "frame_counter" THEN st.cells[t]
  ELSE IF kind = "frame_dist"
       THEN [data |-> st.dds[st.cells[t].data], commit |-> st.cells[t].commit]
       ELSE st.dds[t]

\* ------------------------------------------------ the locks of the cells
\* Every cell has two locks: MetricCell._lock ("cell") and the _lock of its
\* CellCommitState ("commit").  A method is the sequence of lock operations
\* it performs; what it computes in between plays no part in who waits for
\* whom.  Here `res` holds the holders of each lock and each thread's
\* remaining lock operations, and `ops` counts the calls started.
MaxLockOps == 3

LockKinds == {"locks_counter", "locks_dist"}
SharedCells == {<<"shared", 1>>, <<"shared", 2>>}
\* the cell a combine by thread t creates; no other thread knows it
ResultCell(t) == <<"result", t[2]>>
LockCells == SharedCells \cup {ResultCell(t) : t \in Writers}
Locks == LockCells \X {"cell", "commit"}

\* leaving a `with lock:` block, normally or by an exception, releases it
WithExit(l) == << <<"rel", l>> >>

\* with l: body
With(l, body) == << <<"acq", l>> >> \o body \o WithExit(l)

\* after_modification, before_commit, after_commit: with self._lock
TrackerCall(c) == With(<<c, "commit">>, <<>>)

\* CounterCell.inc: with self._lock: self.value += n (which raises on a value
\* that cannot be added); self.commit.after_modification()
IncProgram(c, ok) == With(<<c, "cell">>, IF ok THEN TrackerCall(c) ELSE <<>>)

\* DistributionCell.update: with self._lock:
\* self.commit.after_modification(); self._update(value) (which may raise)
UpdateProgram(c, ok) == With(<<c, "cell">>, TrackerCall(c))

\* get_cumulative: with self._lock
GetCumulativeProgram(c) == With(<<c, "cell">>, <<>>)

\* the operands whose cell lock combine holds while it reads them: none,
\* self.value + other.value and self.data.combine(other.data) read directly
CombineOperandLocks_Both(c, o) == <<c, o>>
CombineOperandLocks(c, o) == <<>>

RECURSIVE Nested(_, _)
Nested(cs, body) ==
  IF cs = <<>> THEN body ELSE With(<<Head(cs), "cell">>, Nested(Tail(cs), body))

\* CounterCell.combine: result = CounterCell(); result.inc(...)
\* DistributionCell.combine: result = DistributionCell(); result.data = ...
CombineProgram(k, c, o, t) ==
  Nested(CombineOperandLocks(c, o),
         IF k = "locks_counter" THEN IncProgram(ResultCell(t), TRUE) ELSE <<>>)

LockOpNames == {"modify", "get_cumulative", "before_commit", "after_commit", "combine"}

Program(k, op, c, o, ok, t) ==
  CASE op = "modify" ->
         IF k = "locks_counter" THEN IncProgram(c, ok) ELSE UpdateProgram(c, ok)
    [] op = "get_cumulative" -> GetCumulativeProgram(c)
    [] op \in {"before_commit", "after_commit"} -> TrackerCall(c)
    [] op = "combine" -> CombineProgram(k, c, o, t)

InitLocks ==
  /\ \E k \in LockKinds : InitCellWorld(k)
  /\ ops = 0
  /\ res = [held |-> [l \in Locks |-> {}], prog |-> [t \in Writers |-> <<>>]]
  /\ apc = "run"

\* thread t calls a method of cell c (combine: with the cell o)
LockStart(t, op, c, o, ok) ==
  /\ kind \in LockKinds
  /\ res.prog[t] = <<>>
  /\ ops < MaxLockOps
  /\ Program(kind, op, c, o, ok, t) # <<>>
  /\ ops' = ops + 1
  /\ res' = [res EXCEPT !.prog[t] = Program(kind, op, c, o, ok, t)]
  /\ UNCHANGED <<cellVars, writerVars, harvVars, histVars, apc>>

\* threading.Lock: acquire waits until nobody holds the lock, the caller
\* included; release frees it
LockStep(t) ==
  /\ kind \in LockKinds
  /\ res.prog[t] # <<>>
  /\ LET i == Head(res.prog[t])
     IN IF i[1] = "acq"
        THEN /\ res.held[i[2]] = {}
             /\ res' = [res EXCEPT !.held[i[2]] = {t}, !.prog[t] = Tail(@)]
        ELSE res' = [res EXCEPT !.held[i[2]] = @ \ {t}, !.prog[t] = Tail(@)]
  /\ UNCHANGED <<cellVars, writerVars, harvVars, histVars, ops, apc>>

NextLocks ==
  \/ \E t \in Writers, op \in LockOpNames, c, o \in SharedCells, ok \in BOOLEAN :
       LockStart(t, op, c, o, ok)
  \/ \E t \in Writers : LockStep(t)

\* every thread that can run does run
SpecLocks ==
  InitLocks /\ [][NextLocks]_vars /\ \A t \in Writers : WF_vars(LockStep(t))

\* thread t is inside a call
InCall(t) == res.prog[t] # <<>>
\* the lock thread t is about to acquire
Wanted(t) ==
  IF InCall(t) /\ Head(res.prog[t])[1] = "acq" THEN {Head(res.prog[t])[2]} ELSE {}
\* thread t waits for a lock somebody holds
Blocked(t) == \E l \in Wanted(t) : res.held[l] # {}
HeldBy(t) == {l \in Locks : t \in res.held[l]}

\* --------------------------------------------------- folding a sequence
MaxFoldLen == 3

\* int(x) of a value that is an int
IntOf(x) == x

\* CounterAggregator: zero, combine, result
CounterAggZero == 0
CounterAggCombine(x, y) == IntOf(x) + IntOf(y)
CounterAggResult(x) == IntOf(x)

\* DistributionAggregator: zero is DistZero; combine, result (the
\* DistributionResult wraps the DistributionData that get_cumulative copies)
DistAggCombine(x, y) == DataCombine(x, Some(y))
DistAggResult(x) == DataGetCumulative(x)

\* DistributionCell.combine: the data of the cell it returns
DistCellCombine(selfData, otherData) == DataCombine(selfData, Some(otherData))

FoldSeqs == UNION {[1..n -> AlgInts] : n \in 0..MaxFoldLen}

\* the sequence, and where it is cut in two groups: elements 1..cut and the rest
InitFold ==
  /\ InitCellWorld("fold")
  /\ \E q \in FoldSeqs : \E c \in 0..Len(q) : ops = [seq |-> q, cut |-> c]
  /\ res = [i |-> 0,
            cnt |-> CounterAggZero, cntL |-> CounterAggZero, cntR |-> CounterAggZero,
            dist |-> DistZero, distL |-> DistZero, distR |-> DistZero,
            one |-> NewCounterCell, cellL |-> NewCounterCell, cellR |-> NewCounterCell,
            oneD |-> InitData, dataL |-> InitData, dataR |-> InitData]
  /\ apc = "folding"

\* the next element v of the sequence: the aggregators combine it into their
\* accumulators (the whole fold, and the fold of v's group); inc(v) / update(v)
\* is called on the one cell and on the cell of v's group
FoldStep ==
  /\ kind = "fold" /\ apc = "folding" /\ res.i < Len(ops.seq)
  /\ LET v == ops.seq[res.i + 1]
         left == res.i + 1 <= ops.cut
     IN res' = [res EXCEPT
          !.i = @ + 1,
          !.cnt = CounterAggCombine(@, v),
          !.cntL = IF left THEN CounterAggCombine(@, v) ELSE @,
          !.cntR = IF left THEN @ ELSE CounterAggCombine(@, v),
          !.dist = DistAggCombine(@, Singleton(v)),
          !.distL = IF left THEN DistAggCombine(@, Singleton(v)) ELSE @,
          !.distR = IF left THEN @ ELSE DistAggCombine(@, Singleton(v)),
          !.one = CellInc(@, v),
          !.cellL = IF left THEN CellInc(@, v) ELSE @,
          !.cellR = IF left THEN @ ELSE CellInc(@, v),
          !.oneD = DataUpdate(@, v),
          !.dataL = IF left THEN DataUpdate(@, v) ELSE @,
          !.dataR = IF left THEN @ ELSE DataUpdate(@, v)]
  /\ UNCHANGED <<cellVars, writerVars, harvVars, histVars, ops, apc>>

\* the sequence is used up: the two groups are combined, by the aggregators
\* and by combine on the two cells, and the results are taken
FoldFinish ==
  /\ kind = "fold" /\ apc = "folding" /\ res.i = Len(ops.seq)
  /\ res' = [counter |-> CounterAggResult(res.cnt),
             counterGrouped |-> CounterAggResult(CounterAggCombine(res.cntL, res.cntR)),
             counterZeroLeft |-> CounterAggResult(CounterAggCombine(CounterAggZero, res.cnt)),
             counterZeroRight |-> CounterAggResult(CounterAggCombine(res.cnt, CounterAggZero)),
             dist |-> DistAggResult(res.dist),
             distGrouped |-> DistAggResult(DistAggCombine(res.distL, res.distR)),
             distZeroLeft |-> DistAggResult(DistAggCombine(DistZero, res.dist)),
             distZeroRight |-> DistAggResult(DistAggCombine(res.dist, DistZero)),
             oneCell |-> CellGetCumulative(res.one),
             cellsCombined |-> CellGetCumulative(CounterCombine(res.cellL, res.cellR)),
             oneDist |-> DataGetCumulative(res.oneD),
             distsCombined |-> DataGetCumulative(DistCellCombine(res.dataL, res.dataR))]
  /\ apc' = "done"
  /\ UNCHANGED <<cellVars, writerVars, harvVars, histVars, ops>>

NextFold == FoldStep \/ FoldFinish

SpecFold == InitFold /\ [][NextFold]_vars

\* ------------------------------------------------- two harvesting threads
InitTwoHarvesters ==
  /\ \E k \in TwoHarvesterKinds : InitCellWorld(k)
  /\ ops = <<>>
  /\ res = <<>>
  /\ apc = "off"

NextTwoHarvesters ==
  \/ \E w \in Writers, a \in Args : IncAcquire(w, a)
  \/ \E w \in Writers : IncLoad(w)
  \/ \E w \in Writers : IncAdd(w)
  \/ \E w \in Writers : IncMark(w)
  \/ \E w \in Writers, a \in Args : UpdateAcquire(w, a)
  \/ \E w \in Writers : UpdateMark(w)
  \/ \E w \in Writers : UpdateInt(w)
  \/ \E w \in Writers : UpdateField(w)
  \/ \E w \in Writers : Return(w)
  \/ \E h \in Harvesters : HBeforeCommit(h)
  \/ \E h \in Harvesters : HGetCumulative(h)
  \/ \E h \in Harvesters : HAfterCommit(h)
  \/ \E h \in Harvesters : HSkipCommit(h)

SpecTwoHarvesters == InitTwoHarvesters /\ [][NextTwoHarvesters]_vars

\* ------------------------------------------- combine on a cell being updated
\* DistributionCell.combine(self, other) where writers update `self`
\* meanwhile.  combine takes no lock: self.data.combine(other.data) reads the
\* fields of the live data object in the order of DistributionData.combine's
\* statements (min, max, sum, count).  `ops` is the data of `other`, a cell
\* nobody updates; `res` collects what has been computed so far.
LiveOthers == {InitData} \cup {DataUpdate(InitData, v) : v \in Values}

InitLive ==
  /\ InitCellWorld("dist_live")
  /\ ops \in LiveOthers
  /\ res = <<>>
  /\ apc = "ready"

\* one statement of DistributionData.combine(self.data, other.data)
LiveCombineStep ==
  /\ kind = "dist_live"
  /\ \/ /\ apc = "ready"
        /\ res' = [new_min |-> IF data.min = None /\ ops.min = None THEN None
                               ELSE Some(SetMin(data.min \cup ops.min))]
        /\ apc' = "new_max"
     \/ /\ apc = "new_max"
        /\ res' = [new_min |-> res.new_min,
                   new_max |-> IF data.max = None /\ ops.max = None THEN None
                               ELSE Some(SetMax(data.max \cup ops.max))]
        /\ apc' = "sum"
     \/ /\ apc = "sum"
        /\ res' = [new_min |-> res.new_min, new_max |-> res.new_max,
                   sum |-> data.sum + ops.sum]
        /\ apc' = "count"
     \/ /\ apc = "count"
        /\ res' = [result |-> DistributionData(res.sum, data.count + ops.count,
                                               res.new_min, res.new_max)]
        /\ apc' = "done"
  /\ UNCHANGED <<cellVars, writerVars, harvVars, histVars, ops>>

NextLive ==
  \/ \E w \in Writers, a \in Args : UpdateAcquire(w, a)
  \/ \E w \in Writers : UpdateMark(w)
  \/ \E w \in Writers : UpdateInt(w)
  \/ \E w \in Writers : UpdateField(w)
  \/ \E w \in Writers : Return(w)
  \/ LiveCombineStep

SpecLive == InitLive /\ [][NextLive]_vars

\* ------------------------------------------- the harvesting loop, scheduled
\* One cell, its writers, and the harvester repeating before_commit,
\* get_cumulative, after_commit.  Threads are scheduled fairly: a thread that
\* is inside a call and can take its next step takes it eventually, and the
\* harvester keeps going round its loop.  When a writer calls is not
\* constrained; there are at most MaxCalls calls.
InitLoop ==
  /\ \E k \in CellKinds : InitCellWorld(k)
  /\ ops = <<>>
  /\ res = <<>>
  /\ apc = "off"

\* a writer inside inc / update executes its next statement
WriterProgress ==
  \E w \in Writers :
    \/ IncLoad(w) \/ IncAdd(w) \/ IncMark(w)
    \/ UpdateMark(w) \/ UpdateInt(w) \/ UpdateField(w)
    \/ Return(w)

\* the harvester executes the next call of its loop
HarvesterProgress ==
  \E h \in Harvesters : HBeforeCommit(h) \/ HGetCumulative(h) \/ HAfterCommit(h)

NextLoop ==
  \/ \E w \in Writers, a \in Args : IncAcquire(w, a)
  \/ \E w \in Writers, a \in Args : UpdateAcquire(w, a)
  \/ WriterProgress
  \/ HarvesterProgress

SpecLoop ==
  InitLoop /\ [][NextLoop]_vars /\ WF_vars(WriterProgress) /\ WF_vars(HarvesterProgress)

\* ----------------------------------------------------- steps, by method
IsAfterModification == marks' = marks + 1
IsBeforeCommit(h) == HBeforeCommit(h) \/ TrackerBeforeCommit(h)
IsAfterCommit == (\E h \in Harvesters : HAfterCommit(h)) \/ TrackerAfterCommit
IsGetCumulative(h) == hpc[h] = "read" /\ hpc'[h] = "commit"

\* the values of a bag of integers, computed independently of the cell
Least(S) == CHOOSE m \in S : \A x \in S : m <= x
Greatest(S) == CHOOSE m \in S : \A x \in S : m >= x
RefMin(b) == IF BagSupport(b) = {} THEN None ELSE Some(Least(BagSupport(b)))
RefMax(b) == IF BagSupport(b) = {} THEN None ELSE Some(Greatest(BagSupport(b)))

\* ---------------------------------------------------------------- claims

\* C1: with one harvesting loop (before_commit, get_cumulative when it
\* returned true, after_commit), whenever the tracker is CLEAN every inc/update
\* call that has returned was already applied when get_cumulative last ran
\* (the count of returned calls does not exceed the count of mutations the
\* last read saw), and with no call in progress the value last returned to
\* the harvester is the cell's current value.
C1_NoLostUpdate ==
  (kind \in CellKinds /\ state = CLEAN) =>
    /\ BagCount(done) <= nRead
    /\ ~AnyWriterBusy => \A h \in Harvesters : snap[h] = Some(Cumulative)

C1_Witness ==
  /\ kind = "dist" /\ state = CLEAN /\ ~AnyWriterBusy
  /\ BagCount(done) = 2 /\ nRead = 2

\* C2: the tracker's state changes only by after_modification (any state to
\* DIRTY), before_commit (CLEAN stays CLEAN and false is returned; DIRTY and
\* COMMITTING go to COMMITTING and true is returned) and after_commit
\* (COMMITTING to CLEAN, DIRTY and CLEAN unchanged); CLEAN is entered only by
\* after_commit from COMMITTING.
C2_TrackerTransitions ==
  [][ /\ IsAfterModification => state' = DIRTY
      /\ \A h \in Harvesters : IsBeforeCommit(h) =>
           /\ state = CLEAN => (state' = CLEAN /\ ret'[h] = FALSE)
           /\ state \in {DIRTY, COMMITTING} => (state' = COMMITTING /\ ret'[h] = TRUE)
      /\ IsAfterCommit =>
           /\ state = COMMITTING => state' = CLEAN
           /\ state \in {DIRTY, CLEAN} => state' = state
      /\ state' # state =>
           \/ IsAfterModification
           \/ \E h \in Harvesters : IsBeforeCommit(h)
           \/ IsAfterCommit
      /\ (state # CLEAN /\ state' = CLEAN) => (IsAfterCommit /\ state = COMMITTING)
    ]_vars

C2_Witness ==
  /\ kind = "tracker" /\ state = CLEAN /\ phase = "committed"
  /\ marks = 2 /\ \A h \in Harvesters : ret[h] = FALSE

\* C3: if an inc/update call finishes its work (the value written and
\* after_modification called) after a before_commit that returned true and
\* before the matching after_commit, that after_commit leaves the tracker
\* DIRTY, and the before_commit after it returns true.
C3_MutationDuringCommit ==
  /\ [][ (IsAfterCommit /\ phase = "committing" /\ mutSinceBC) => state' = DIRTY ]_vars
  /\ [][ \A h \in Harvesters :
           (IsBeforeCommit(h) /\ phase = "committed" /\ mutSinceBC) => ret'[h] = TRUE ]_vars

\* C3 on the counter cell and the bare tracker alone
C3_CounterOnly ==
  /\ [][ (kind # "dist" /\ IsAfterCommit /\ phase = "committing" /\ mutSinceBC)
           => state' = DIRTY ]_vars
  /\ [][ \A h \in Harvesters :
           (kind # "dist" /\ IsBeforeCommit(h) /\ phase = "committed" /\ mutSinceBC)
             => ret'[h] = TRUE ]_vars

\* C4: a fresh tracker is DIRTY and its first before_commit returns true;
\* after a before_commit and its after_commit with no inc/update call in
\* progress in between, the tracker is CLEAN, and every before_commit
\* returns false for as long as no inc/update call has begun.
C4_FreshAndQuietCommit ==
  /\ [](phase = "fresh" => state = DIRTY)
  /\ [][ \A h \in Harvesters :
           (IsBeforeCommit(h) /\ phase = "fresh") => ret'[h] = TRUE ]_vars
  /\ []((phase = "committed" /\ ~activity) => state = CLEAN)
  /\ [][ \A h \in Harvesters :
           (IsBeforeCommit(h) /\ phase = "committed" /\ ~activity)
             => (ret'[h] = FALSE /\ state' = CLEAN) ]_vars

C4_Witness ==
  /\ kind = "counter" /\ phase = "committed" /\ ~activity /\ state = CLEAN
  /\ BagCount(done) = 1 /\ \A h \in Harvesters : ret[h] = FALSE /\ hpc[h] = "idle"

\* C5: when a harvest called before_commit and get_cumulative but not
\* after_commit, the tracker is COMMITTING or DIRTY until the next
\* before_commit, that before_commit returns true, and if the cell's value was
\* not written since the first read the retried get_cumulative returns the
\* same value.
C5_RetrySafe ==
  /\ [](\A h \in Harvesters :
          (skipped[h] /\ hpc[h] = "idle") => state \in {COMMITTING, DIRTY})
  /\ [][ \A h \in Harvesters :
           (IsBeforeCommit(h) /\ skipped[h]) => ret'[h] = TRUE ]_vars
  /\ [][ \A h \in Harvesters :
           (IsGetCumulative(h) /\ skipped[h] /\ ~changed[h]) => snap'[h] = snap[h] ]_vars

C5_Witness ==
  \E h \in Harvesters :
    /\ kind = "dist" /\ skipped[h] /\ hpc[h] = "commit" /\ ~changed[h]
    /\ BagCount(done) = 2 /\ nRead = 2 /\ state = COMMITTING

\* C6: once every inc call on the counter cell has returned, get_cumulative
\* is the sum of the increments, and after_modification ran once per call.
C6_NoLostIncrements ==
  (kind = "counter" /\ ~AnyWriterBusy) =>
    /\ Cumulative = InitValue + BagSum(done)
    /\ marks = BagCount(done)

C6_Witness ==
  /\ kind = "counter" /\ ~AnyWriterBusy /\ ncalls = 2
  /\ BagCount(done) = 2 /\ value = 2

\* C7: once every update call on a fresh distribution cell has returned,
\* get_cumulative has count = number of calls, sum = their sum, min = the
\* smallest and max = the largest value (both None without calls).
C7_DistributionTotals ==
  (kind = "dist" /\ ~AnyWriterBusy) =>
    Cumulative = DistributionData(BagSum(done), BagCount(done), RefMin(done), RefMax(done))

C7_Witness ==
  /\ kind = "dist" /\ ~AnyWriterBusy
  /\ data.count = 2 /\ data.min = Some(0 - 1) /\ data.max = Some(1)

\* DistributionData's invariant: count = 0 exactly when min and max are both
\* None, and min <= max when count > 0
WellFormedData(d) ==
  /\ d.count = 0 <=> (d.min = None /\ d.max = None)
  /\ d.count > 0 => (d.min # None /\ d.max # None /\ Val(d.min) <= Val(d.max))

\* C8: every DistributionData that DistributionCell.get_cumulative returns,
\* also while update calls are running, has count = 0 exactly when min and max
\* are None and min <= max when count > 0; and DistributionData.combine of two
\* operands with that property has it too.
C8_DataInvariant ==
  /\ kind = "dist" =>
       \A h \in Harvesters : snap[h] # None => WellFormedData(Val(snap[h]))
  /\ (kind = "combine_data" /\ apc = "done"
        /\ WellFormedData(ops[1]) /\ WellFormedData(ops[2]))
       => WellFormedData(res.xy)

C8_Witness ==
  \E h \in Harvesters :
    /\ kind = "dist" /\ AnyWriterBusy /\ data.count = 2
    /\ snap[h] # None /\ Val(snap[h]).count = 1

\* C9: CounterCell.combine of cells holding a and b gives a cell whose
\* get_cumulative is a + b; the total of three cells is the same in both
\* orders and both groupings.
C9_CounterCombine ==
  (kind = "combine_counter" /\ apc = "done") =>
    /\ CellGetCumulative(res.ab) = ops[1].value + ops[2].value
    /\ CellGetCumulative(res.ab) = CellGetCumulative(res.ba)
    /\ CellGetCumulative(res.ab_c) = CellGetCumulative(res.a_bc)
    /\ CellGetCumulative(res.ab_c) = ops[1].value + ops[2].value + ops[3].value

C9_Witness ==
  /\ kind = "combine_counter" /\ apc = "done"
  /\ ops[1].value = 1 /\ ops[2].value = 0 - 1 /\ ops[3].value = 1
  /\ CellGetCumulative(res.ab_c) = 1

\* C10: DistributionData.combine is commutative and associative, combining
\* with DistributionData(0, 0, None, None) on either side gives a value equal
\* to the other operand, and singleton(v).combine(singleton(w)) is
\* (v + w, 2, min(v, w), max(v, w)).
C10_DataCombineAlgebra ==
  /\ (kind = "combine_data" /\ apc = "done") =>
       /\ DataEq(res.xy, res.yx)
       /\ DataEq(res.xy_z, res.x_yz)
       /\ DataEq(res.x0, ops[1])
       /\ DataEq(res.zx, ops[1])
  /\ (kind = "combine_singleton" /\ apc = "done") =>
       DataEq(res.vw,
              DistributionData(ops[1] + ops[2], 2,
                               Some(IF ops[1] <= ops[2] THEN ops[1] ELSE ops[2]),
                               Some(IF ops[1] >= ops[2] THEN ops[1] ELSE ops[2])))

C10_Witness ==
  /\ kind = "combine_data" /\ apc = "done"
  /\ ops[1].min = None /\ ops[2].min = Some(1) /\ ops[3].min = Some(0)
  /\ res.xy_z.min = Some(0) /\ res.x0 = ops[1]

\* C11: combine on CounterCell, DistributionCell and DistributionData leaves
\* both operands as they were (value or sum/count/min/max, and commit state),
\* and its result shares no mutable state with an operand: an inc/update on
\* the result afterwards changes no operand, and an inc/update on an operand
\* afterwards does not change the result.
C11_CombineFrame ==
  (kind \in FrameKinds /\ apc \in {"combined", "done"}) =>
    /\ \A t \in FrameOperands : FrameView(res.at, t) = FrameView(ops, t)
    /\ res.result \notin FrameOperands
    /\ (apc = "done" /\ res.target = res.result) =>
         \A t \in FrameOperands : FrameView(res.live, t) = FrameView(res.at, t)
    /\ (apc = "done" /\ res.target \in FrameOperands) =>
         FrameView(res.live, res.result) = FrameView(res.at, res.result)

\* C11 for CounterCell.combine and DistributionCell.combine, and for
\* DistributionData.combine with an operand that is not None
C11_CellsAndPresentOperand ==
  (kind \in FrameKinds /\ apc \in {"combined", "done"}
     /\ (kind = "frame_data" => ops.other # None)) =>
    /\ \A t \in FrameOperands : FrameView(res.at, t) = FrameView(ops, t)
    /\ res.result \notin FrameOperands
    /\ (apc = "done" /\ res.target = res.result) =>
         \A t \in FrameOperands : FrameView(res.live, t) = FrameView(res.at, t)
    /\ (apc = "done" /\ res.target \in FrameOperands) =>
         FrameView(res.live, res.result) = FrameView(res.at, res.result)

\* C12: with any threads calling inc/update, get_cumulative, before_commit,
\* after_commit and combine on shared cells, no reachable state has every
\* thread blocked on a lock; no thread holds a lock of one cell while it
\* waits for a lock of another cell; and under fair scheduling every call
\* that was started returns.
C12_DeadlockFree ==
  /\ [](kind \in LockKinds => ~(\A t \in Writers : Blocked(t)))
  /\ [](kind \in LockKinds =>
          \A t \in Writers : \A l \in Wanted(t) : \A h \in HeldBy(t) : h[1] = l[1])
  /\ \A t \in Writers : (kind \in LockKinds /\ InCall(t)) ~> ~InCall(t)

\* a thread waits for a cell's lock while another thread holds two locks
C12_Witness ==
  /\ kind \in LockKinds
  /\ \E t, u \in Writers : Blocked(t) /\ Cardinality(HeldBy(u)) = 2

\* what the holder of harvester h's last get_cumulative result sees in it now
SnapView(h) ==
  IF snap[h] # None /\ kind = "dist" /\ GetCumulativeRef = "self"
  THEN Some(data)
  ELSE snap[h]

\* C13: an inc/update with a value that is not a number / cannot be converted
\* ends in the error and changes nothing of the accumulated value: no step
\* taken while the failing call runs changes value, sum, count, min or max
\* (no partial update), and the call does not end normally.
C13_FailedCallChangesNothing ==
  [][\A w \in Writers :
       (wpc[w] # "idle" /\ ~arg[w].ok) =>
          /\ value' = value
          /\ data' = data
          /\ wpc'[w] # "exit_ok"
          /\ wpc'[w] = "idle" => wpc[w] = "exit_err"]_vars

\* a failing call has raised on a cell that holds an accumulated value
C13_Witness ==
  \E w \in Writers :
    /\ wpc[w] = "exit_err" /\ ~arg[w].ok
    /\ \/ kind = "counter" /\ value # 0
       \/ kind = "dist" /\ data.count > 0

\* C14: get_cumulative changes neither the cell's value nor its commit state;
\* before_commit and after_commit never change the value; and the
\* DistributionData a get_cumulative returned is not changed by anything that
\* happens to the cell afterwards.
C14_ReadAndCommitFrame ==
  [][/\ \A h \in Harvesters :
          IsGetCumulative(h) => (value' = value /\ data' = data /\ state' = state)
     /\ ((\E h \in Harvesters : IsBeforeCommit(h)) \/ IsAfterCommit) =>
          (value' = value /\ data' = data)
     /\ \A h \in Harvesters :
          (snap[h] # None /\ ~IsGetCumulative(h)) => SnapView(h)' = SnapView(h)]_vars

\* a snapshot of a distribution cell that was updated after it was taken
C14_Witness ==
  /\ kind = "dist"
  /\ \E h \in Harvesters :
       /\ snap[h] # None /\ snap[h] # Some(data)
       /\ hpc[h] = "idle" /\ ~AnyWriterBusy

\* C16: inc / update mark the tracker only after the value mutation
\* succeeded: no step of a call that fails changes the commit state, on a
\* CounterCell and on a DistributionCell.
C16_MarkOnlyAfterSuccess ==
  [][\A w \in Writers :
       (wpc[w] # "idle" /\ ~arg[w].ok /\ wpc'[w] # wpc[w]) => state' = state]_vars

\* C16 on the CounterCell alone
C16_CounterOnly ==
  [][\A w \in Writers :
       (kind = "counter" /\ wpc[w] # "idle" /\ ~arg[w].ok /\ wpc'[w] # wpc[w])
         => state' = state]_vars

\* what a sequence of integers amounts to, whatever its order: how often each
\* value occurs, the sum, and the DistributionData of its elements
SeqCount(q) == [v \in AlgInts |-> Cardinality({i \in DOMAIN q : q[i] = v})]
SeqSum(q) == BagSumOver(AlgInts, SeqCount(q))
SeqElems(q) == {q[i] : i \in DOMAIN q}
SeqData(q) ==
  DistributionData(SeqSum(q), Len(q),
                   IF q = <<>> THEN None ELSE Some(Least(SeqElems(q))),
                   IF q = <<>> THEN None ELSE Some(Greatest(SeqElems(q))))

\* C15: folding a sequence of integers from zero() with combine gives, for
\* CounterAggregator, the sum of the sequence, and for DistributionAggregator
\* (folding singleton(v)) count = its length, sum = its sum, min and max =
\* its smallest and largest element (None for the empty sequence); the result
\* depends on neither the order of the elements nor their grouping, and
\* zero() is an identity of combine on both sides.
C15_AggregatorFold ==
  (kind = "fold" /\ apc = "done") =>
    /\ res.counter = SeqSum(ops.seq)
    /\ res.dist = SeqData(ops.seq)
    /\ res.counterGrouped = res.counter
    /\ res.distGrouped = res.dist
    /\ res.counterZeroLeft = res.counter /\ res.counterZeroRight = res.counter
    /\ res.distZeroLeft = res.dist /\ res.distZeroRight = res.dist

\* a sequence of three elements, the smallest in the middle, cut after the first
C15_Witness ==
  /\ kind = "fold" /\ apc = "done"
  /\ ops.seq = <<1, 0 - 1, 0>> /\ ops.cut = 1
  /\ res.dist = DistributionData(0, 3, Some(0 - 1), Some(1))

\* C20: whatever the sequence of integers and however it is split over two
\* cells, combining the cells after their updates gives the cumulative value
\* of one cell that received all the updates; and a DistributionCell updated
\* with the sequence holds the (sum, count, min, max) that
\* DistributionAggregator gets by folding singleton(v) from zero().
C20_CellsAndAggregatorsAgree ==
  (kind = "fold" /\ apc = "done") =>
    /\ res.cellsCombined = res.oneCell
    /\ res.distsCombined = res.oneDist
    /\ res.oneDist = res.dist

\* two cells with one and two updates each, combined
C20_Witness ==
  /\ kind = "fold" /\ apc = "done"
  /\ Len(ops.seq) = 3 /\ ops.cut = 2
  /\ res.distsCombined = DistributionData(1, 3, Some(0 - 1), Some(1))
  /\ res.cellsCombined = 1

\* the update calls issued so far: those that returned, and those running
IssuedBag ==
  [v \in Values |->
     done[v] + Cardinality({w \in Writers : wpc[w] # "idle" /\ arg[w].ok /\ arg[w].v = v})]
\* the data of a fresh distribution cell after the update calls of bag c
BagData(c) == DistributionData(BagSum(c), BagCount(c), RefMin(c), RefMax(c))
\* the states the cell can have had between whole update calls: the data of
\* some of the calls issued
WholeStates ==
  {BagData(c) : c \in {b \in [Values -> 0..MaxCalls] : \A v \in Values : b[v] <= IssuedBag[v]}}

\* C17: DistributionCell.combine on a cell that is being updated reads the
\* cell as one consistent snapshot: the data of the result is the combination
\* of the other operand with a state the cell had between whole update calls,
\* so it has count = 0 exactly when min and max are None and never a count
\* without the matching sum, min and max.
C17_CombineReadsSnapshot ==
  (kind = "dist_live" /\ apc = "done") =>
    /\ \E d \in WholeStates : res.result = DataCombine(d, Some(ops))
    /\ WellFormedData(res.result)

\* C18: with two harvesting threads on one cell, whenever the tracker is
\* CLEAN every inc/update call that has returned is reflected in a value some
\* harvester has already obtained from get_cumulative.
C18_TwoHarvestersNoLostUpdate ==
  (kind \in TwoHarvesterKinds /\ state = CLEAN) => BagCount(done) <= nRead

\* C19: with finitely many inc/update calls and one harvester that keeps
\* repeating before_commit, get_cumulative, after_commit under fair
\* scheduling, eventually and for ever after the tracker is CLEAN,
\* before_commit has returned false, and the value the harvester read last
\* is the value of the cell.
C19_EventuallyClean ==
  <>[](/\ state = CLEAN
       /\ ~AnyWriterBusy
       /\ \A h \in Harvesters : ret[h] = FALSE /\ snap[h] = Some(Cumulative))

\* the tracker at rest after every call the writers may make
C19_Witness ==
  /\ kind = "dist" /\ state = CLEAN /\ ~AnyWriterBusy /\ ncalls = MaxCalls
  /\ BagCount(done) = 2
  /\ \A h \in Harvesters : ret[h] = FALSE /\ hpc[h] = "idle" /\ snap[h] = Some(Cumulative)

====
